---- MODULE Spec2Model ----
(***************************************************************************)
(* LiveFile (src/statefile.go:164-360): an in-memory copy of a value kept  *)
(* in a JSON file, reloaded when the file's modification time advances,    *)
(* and updated under a single mutex.  The model has one controller slot    *)
(* (New replaces the instance), two goroutines that call View, Peek and    *)
(* Update on it, and an external writer that shares the backing file.      *)
(***************************************************************************)
EXTENDS Integers, FiniteSets, Sequences, TLC

\* ---------------------------------------------------------------- bounds
MaxClock == 2

\* ---------------------------------------------------------------- domains
Threads == {"g1", "g2"}
Fields == {"Value", "Name"}

\* TestData{Value int; Name string}; the zero value is in the domain.
TestData == [Value : {0, 42}, Name : {"", "test"}]
ZeroValue == [Value |-> 0, Name |-> ""]
FieldDom(f) == IF f = "Value" THEN {0, 42} ELSE {"", "test"}

\* The default provider handed to New: the one of the tests, which differs
\* from the zero value in every field.
Defaults == {[Value |-> 42, Name |-> "test"]}
\* What the configured errHandler does when it is invoked: the default
\* handler panics, a handler given to WithErrorHandler may return.
HandlerOutcomes == {"panic", "return"}

\* ---------------------------------------------------------------- file contents
\* A file's bytes, by what the JSON decoder makes of them:
\*   empty   size zero
\*   json    one JSON object that sets the fields in has to val's values
\*   tail    a JSON object followed by left-over bytes of a longer, older content
\*   padded  NUL bytes followed by a JSON object (a write past the end of file)
\*   corrupt not JSON
\* src is who wrote the bytes: the controller ("lf"), somebody else ("ext"),
\* or two Updates of the controller, one over the other ("lfmix").
Doc(k, h, v, s) == [kind |-> k, has |-> h, val |-> v, src |-> s]
EmptyDoc == Doc("empty", {}, ZeroValue, "ext")
CorruptDoc == Doc("corrupt", {}, ZeroValue, "ext")
ExtJson(h, v) == Doc("json", h, v, "ext")

\* What an external writer may put in the file.
ExtDocs ==
    {ExtJson(Fields, [Value |-> 0, Name |-> "test"]),
     ExtJson({"Value"}, [Value |-> 42, Name |-> ""]),
     CorruptDoc, EmptyDoc}

\* No file at the path; a handle that is not open.
NoFile == [ex |-> FALSE, doc |-> EmptyDoc, mod |-> 0]
NoHandle == [st |-> "none", doc |-> EmptyDoc, mod |-> 0]
PathHandle == [st |-> "path", doc |-> EmptyDoc, mod |-> 0]

\* json.Encoder.Encode with SetIndent("", "  "): every exported field of the
\* struct is written.
Encode(v) == Doc("json", Fields, [Value |-> v.Value, Name |-> v.Name], "lf")

\* FileInfo.Size() == 0
SizeZero(d) == d.kind = "empty"

\* json.Decoder.Decode(&cached): fields present in the object are stored,
\* fields absent from it keep what the target held.
Merge(d, into) ==
    [Value |-> IF "Value" \in d.has THEN d.val.Value ELSE into.Value,
     Name |-> IF "Name" \in d.has THEN d.val.Name ELSE into.Name]

\* forceLoad: Seek(0), Decode into cached, default on EOF at offset zero,
\* error otherwise.  err = TRUE means errHandler is invoked ("invalid JSON").
\* err == io.EOF && decoder.InputOffset() == 0: the decoder got no byte.
DecodesEOFM(d) == FALSE
DecodesEOF(d) == d.kind = "empty"

ForceLoadM(d, into, def) ==
    CASE d.kind \in {"json", "tail"} -> [cached |-> Merge(d, into), err |-> FALSE]
      [] DecodesEOF(d) -> [cached |-> def, err |-> FALSE]
      [] OTHER -> [cached |-> into, err |-> FALSE]
ForceLoad(d, into, def) ==
    CASE d.kind \in {"json", "tail"} -> [cached |-> Merge(d, into), err |-> FALSE]
      [] DecodesEOF(d) -> [cached |-> def, err |-> FALSE]
      [] OTHER -> [cached |-> into, err |-> TRUE]

\* loadIfUpdated: size non-zero and modTime.After(lastModTime)
NeedsLoadM(f, last) == ~SizeZero(f.doc) /\ last = 0
NeedsLoad(f, last) == ~SizeZero(f.doc) /\ f.mod > last

\* ---------------------------------------------------------------- state
VARIABLES
    file,         \* the file at the path: [ex, doc, mod]
    defaultV,     \* lf.defaultFunc()
    cached,       \* lf.cached
    lastModTime,  \* lf.lastModTime, 0 is the zero time.Time
    locked,       \* lf.mutex
    pc,           \* goroutine -> position in View/Peek/Update
    op,           \* goroutine -> operation in progress
    hFile,        \* goroutine -> open handle: on the path's file, or on a
                  \*   file removed from the path (with that file's doc, mod)
    hOff,         \* goroutine -> I/O offset of the handle is zero
    stMod,        \* goroutine -> modTime read by loadIfUpdated's Stat
    ret,          \* goroutine -> err in Update ("none" before fn returned)
    preFn,        \* history: cached as it was when a failing fn was invoked
    seen,         \* history: external content at the path when the lock was taken
    errAt,        \* history: where errHandler was invoked in this operation
    raced,        \* history: external events during this Update ("no", "fn", "late")
    created,      \* history: OpenFile created the file and fn then failed
    virgin,       \* history: no file has been at the path since New
    hist          \* history: what last finished on this instance, kept while
                  \*   the first Peek of a new instance, or the Update that
                  \*   follows a committed one, is on its way

lfVars == <<defaultV, cached, lastModTime, locked>>
thVars == <<pc, op, hFile, hOff, stMod, ret>>
histVars == <<preFn, seen, errAt, raced, created, virgin, hist>>
vars == <<file, defaultV, cached, lastModTime, locked, pc, op, hFile, hOff,
          stMod, ret, preFn, seen, errAt, raced, created, virgin, hist>>

\* ---------------------------------------------------------------- files
\* The file behind goroutine t's handle.
Behind(t) == IF hFile[t].st = "path" THEN file ELSE hFile[t]

Max(S) == CHOOSE n \in S : \A m \in S : m <= n

\* Modification times are compared, never measured: a write is stamped with
\* the latest time stamp given so far, or with the next one.
Latest ==
    Max({1, lastModTime, file.mod} \cup {hFile[t].mod : t \in Threads}
        \cup {stMod[t] : t \in Threads})
WriteStamps == {n \in {Latest, Latest + 1} : n <= MaxClock}

\* ---------------------------------------------------------------- construction
\* New: cached = defaultFunc(), zero lastModTime, unlocked mutex; no file I/O.
NewCachedM(d) == ZeroValue
NewCached(d) == d

Init ==
    /\ file = NoFile
    /\ defaultV \in Defaults
    /\ cached = NewCached(defaultV)
    /\ lastModTime = 0
    /\ locked = FALSE
    /\ pc = [t \in Threads |-> "idle"]
    /\ op = [t \in Threads |-> "none"]
    /\ hFile = [t \in Threads |-> NoHandle]
    /\ hOff = [t \in Threads |-> TRUE]
    /\ stMod = [t \in Threads |-> 0]
    /\ ret = [t \in Threads |-> "none"]
    /\ preFn = [t \in Threads |-> {}]
    /\ seen = [t \in Threads |-> {}]
    /\ errAt = [t \in Threads |-> "none"]
    /\ raced = [t \in Threads |-> "no"]
    /\ created = [t \in Threads |-> FALSE]
    /\ virgin = TRUE
    /\ hist = "new"

\* A new instance over the same path replaces the old one once no goroutine
\* uses the old one any more.
New ==
    /\ \A t \in Threads : pc[t] = "idle"
    /\ \E d \in Defaults :
        /\ defaultV' = d
        /\ cached' = NewCached(d)
    /\ lastModTime' = 0
    /\ locked' = FALSE
    /\ virgin' = ~file.ex
    /\ hist' = "new"
    /\ UNCHANGED <<file, thVars, preFn, seen, errAt, raced, created>>

\* ---------------------------------------------------------------- entry
\* lf.mutex.Lock(): a goroutine is blocked while another holds the mutex.
MutexFreeM == TRUE
MutexFree == ~locked

\* The complete external content a reader that takes the lock now finds at
\* the path, and whether its modification time is after lastModTime.
SeenNow ==
    IF file.ex /\ file.doc.kind = "json" /\ file.doc.src = "ext"
       /\ file.doc.has = Fields
    THEN {[val |-> file.doc.val, newer |-> file.mod > lastModTime]}
    ELSE {}

\* A goroutine calls View, Peek or Update; each starts by taking the mutex.
Call(t) ==
    /\ pc[t] = "idle"
    /\ MutexFree
    /\ locked' = TRUE
    /\ \E o \in {"View", "Peek", "Update"} :
        /\ op' = [op EXCEPT ![t] = o]
        /\ seen' = [seen EXCEPT ![t] = IF o = "Update" THEN {} ELSE SeenNow]
        /\ hist' = IF (o = "Peek" /\ hist = "new") \/ (o = "Update" /\ hist = "updated")
                   THEN hist ELSE "other"
    /\ pc' = [pc EXCEPT ![t] = "ensure"]
    /\ UNCHANGED <<file, defaultV, cached, lastModTime, hFile, hOff, stMod,
                   ret, preFn, errAt, raced, created, virgin>>

\* ---------------------------------------------------------------- return
\* What a goroutine holds between two calls: nothing.
Leave(t) ==
    /\ pc' = [pc EXCEPT ![t] = "idle"]
    /\ op' = [op EXCEPT ![t] = "none"]
    /\ ret' = [ret EXCEPT ![t] = "none"]
    /\ hFile' = [hFile EXCEPT ![t] = NoHandle]
    /\ hOff' = [hOff EXCEPT ![t] = TRUE]
    /\ stMod' = [stMod EXCEPT ![t] = 0]
    /\ preFn' = [preFn EXCEPT ![t] = {}]
    /\ seen' = [seen EXCEPT ![t] = {}]
    /\ errAt' = [errAt EXCEPT ![t] = "none"]
    /\ raced' = [raced EXCEPT ![t] = "no"]
    /\ created' = [created EXCEPT ![t] = FALSE]

\* ---------------------------------------------------------------- panics
\* Goroutine t panics: the frames below the exported method are gone, and
\* with them the locals and the handle they held.
Abort(t, to, where) ==
    /\ pc' = [pc EXCEPT ![t] = to]
    /\ errAt' = [errAt EXCEPT ![t] = where]
    /\ hFile' = [hFile EXCEPT ![t] = NoHandle]
    /\ hOff' = [hOff EXCEPT ![t] = TRUE]
    /\ stMod' = [stMod EXCEPT ![t] = 0]
    /\ ret' = [ret EXCEPT ![t] = "none"]
    /\ preFn' = [preFn EXCEPT ![t] = {}]
    /\ seen' = [seen EXCEPT ![t] = {}]
    /\ raced' = [raced EXCEPT ![t] = "no"]
    /\ created' = [created EXCEPT ![t] = FALSE]
    /\ UNCHANGED <<file, lfVars, op, virgin, hist>>

\* lf.errHandler(ctx, err) panics, as DefaultErrorHandler does.
Raise(t, where) == Abort(t, "panic", where)

\* errHandler returned after a failed Stat: loadIfUpdated goes on to
\* stat.Size() with the nil FileInfo that came with the error, a nil
\* dereference, which is a run-time panic ("crash").
StatErrNext == "crash"

\* errAt keeps the last invocation of errHandler in the operation: "io_e",
\* "io_u", "io_rb" for a failed Open, Stat or Seek in ensure, in Update's
\* second check and in the rollback, "ensure", "load2", "rollback" for a failed
\* decode there.  What an earlier stage of an Update left is kept as "earlier".
Earlier(e) == IF e = "none" THEN "none" ELSE "earlier"

\* The panic unwinds goroutine t: the deferred calls run (View and Update
\* defer mutex.Unlock, Update defers file.Close, Peek defers nothing) and the
\* caller recovers.
PanicUnlocks(o) == o # "Peek"

Unwind(t) ==
    /\ pc[t] \in {"panic", "crash"}
    /\ Leave(t)
    /\ locked' = IF PanicUnlocks(op[t]) THEN FALSE ELSE locked
    /\ hist' = "other"
    /\ UNCHANGED <<file, defaultV, cached, lastModTime, virgin>>

\* ---------------------------------------------------------------- ensure
AfterEnsure(o) ==
    CASE o = "View" -> "v_fn"
      [] o = "Peek" -> "p_copy"
      [] OTHER -> "u_open"

\* ensure: fs.Open(path), and loadIfUpdated's Stat on the handle.  A missing
\* file, an empty file or a file that is not newer ends the check.  The Open
\* may fail with another error than fs.ErrNotExist ("e_openerr"), and the
\* Stat may fail ("e_staterr").
Ensure(t) ==
    /\ pc[t] = "ensure"
    /\ \/ IF file.ex /\ NeedsLoad(file, lastModTime)
          THEN /\ hFile' = [hFile EXCEPT ![t] = PathHandle]
               /\ stMod' = [stMod EXCEPT ![t] = file.mod]
               /\ pc' = [pc EXCEPT ![t] = "e_read"]
          ELSE /\ pc' = [pc EXCEPT ![t] = AfterEnsure(op[t])]
               /\ UNCHANGED <<hFile, stMod>>
       \/ /\ pc' = [pc EXCEPT ![t] = "e_openerr"]
          /\ UNCHANGED <<hFile, stMod>>
       \/ /\ file.ex
          /\ pc' = [pc EXCEPT ![t] = "e_staterr"]
          /\ UNCHANGED <<hFile, stMod>>
    /\ UNCHANGED <<file, lfVars, op, hOff, ret, histVars>>

\* ensure's Open failed: lf.errHandler(ctx, err), and if that returns the
\* check is over.
EnsureOpenErr(t) ==
    /\ pc[t] = "e_openerr"
    /\ \E h \in HandlerOutcomes :
       IF h = "panic"
       THEN Raise(t, "io_e")
       ELSE /\ errAt' = [errAt EXCEPT ![t] = "io_e"]
            /\ pc' = [pc EXCEPT ![t] = AfterEnsure(op[t])]
            /\ UNCHANGED <<file, lfVars, op, hFile, hOff, stMod, ret, preFn,
                           seen, raced, created, virgin, hist>>

\* loadIfUpdated's Stat failed: lf.errHandler(ctx, "stat failed"), and if that
\* returns, stat.Size() on the nil FileInfo.  Nothing is read through the
\* handle on this path, and hFile does not follow it.
StatErr(t) ==
    /\ pc[t] \in {"e_staterr", "u_staterr"}
    /\ LET at == IF pc[t] = "e_staterr" THEN "io_e" ELSE "io_u" IN
       \E h \in HandlerOutcomes :
       IF h = "panic"
       THEN Raise(t, at)
       ELSE Abort(t, StatErrNext, at)

\* What the decoder reads through goroutine t's handle: the file from its
\* start after forceLoad's Seek(0), or, when the Seek failed, from where the
\* handle's offset is; past the end that is end-of-input at once.
ReadAt(t, rewound) ==
    IF rewound \/ hOff[t] THEN Behind(t).doc ELSE EmptyDoc

\* forceLoad ends with lf.onLoaded(ctx, &lf.cached) when the decode gave no
\* error (the callback is taken to be configured).
CallsOnLoadedM(err) == TRUE
CallsOnLoaded(err) == ~err

\* loadIfUpdated's forceLoad.  Its Seek may fail ("e_seekerr"): errHandler is
\* invoked and, if it returns, the decode goes on.  A decode error goes to
\* errHandler; if that returns, or after onLoaded, lastModTime = modTime and
\* file.Close() follow.
EnsureRead(t) ==
    /\ pc[t] \in {"e_read", "e_seekerr"}
    /\ \/ /\ pc[t] = "e_read"
          /\ pc' = [pc EXCEPT ![t] = "e_seekerr"]
          /\ UNCHANGED <<file, lfVars, op, hFile, hOff, stMod, ret, histVars>>
       \/ LET seekErr == pc[t] = "e_seekerr"
              r == ForceLoad(ReadAt(t, ~seekErr), cached, defaultV)
          IN \E hs, h \in HandlerOutcomes :
             IF seekErr /\ hs = "panic"
             THEN Raise(t, "io_e")
             ELSE IF r.err /\ h = "panic"
             THEN Raise(t, "ensure")
             ELSE /\ cached' = r.cached
                  /\ errAt' = [errAt EXCEPT ![t] =
                                  IF r.err THEN "ensure"
                                  ELSE IF seekErr THEN "io_e" ELSE @]
                  /\ IF CallsOnLoaded(r.err)
                     THEN /\ pc' = [pc EXCEPT ![t] = "e_loaded"]
                          /\ UNCHANGED <<lastModTime, hFile, stMod>>
                     ELSE /\ lastModTime' = stMod[t]
                          /\ hFile' = [hFile EXCEPT ![t] = NoHandle]
                          /\ stMod' = [stMod EXCEPT ![t] = 0]
                          /\ pc' = [pc EXCEPT ![t] = AfterEnsure(op[t])]
                  /\ UNCHANGED <<file, defaultV, locked, op, hOff, ret, preFn,
                                 seen, raced, created, virgin, hist>>

\* onLoaded returns in ensure: lastModTime = modTime, file.Close().
EnsureLoaded(t) ==
    /\ pc[t] = "e_loaded"
    /\ lastModTime' = stMod[t]
    /\ hFile' = [hFile EXCEPT ![t] = NoHandle]
    /\ stMod' = [stMod EXCEPT ![t] = 0]
    /\ pc' = [pc EXCEPT ![t] = AfterEnsure(op[t])]
    /\ UNCHANGED <<file, defaultV, cached, locked, op, hOff, ret, histVars>>

\* ---------------------------------------------------------------- View, Peek
\* View: f(&lf.cached) runs while pc = "v_fn"; this step is its return and
\* the deferred Unlock.
ViewFn(t) ==
    /\ pc[t] = "v_fn"
    /\ Leave(t)
    /\ locked' = FALSE
    /\ hist' = "other"
    /\ UNCHANGED <<file, defaultV, cached, lastModTime, virgin>>

\* Peek: c := lf.cached; Unlock; return c
PeekResult == cached

PeekCopy(t) ==
    /\ pc[t] = "p_copy"
    /\ Leave(t)
    /\ locked' = FALSE
    /\ hist' = "other"
    /\ UNCHANGED <<file, defaultV, cached, lastModTime, virgin>>

\* ---------------------------------------------------------------- Update
\* fs.OpenFile(path, O_RDWR|O_CREATE) and loadIfUpdated's Stat on the handle.
\* O_CREATE makes an empty file when none is at the path.  The open, or the
\* MkdirAll and second open it falls back on, may fail ("u_openerr"), and so
\* may the Stat on the opened file ("u_staterr").
OpenCreates == ~file.ex

UpdOpen(t) ==
    /\ pc[t] = "u_open"
    /\ \/ /\ pc' = [pc EXCEPT ![t] = "u_openerr"]
          /\ UNCHANGED <<file, hFile, hOff, stMod, created, virgin>>
       \/ \E m \in WriteStamps :
          LET f == IF OpenCreates
                   THEN [ex |-> TRUE, doc |-> EmptyDoc, mod |-> m]
                   ELSE file
          IN /\ (~OpenCreates => m = Latest)
             /\ file' = f
             /\ virgin' = (virgin /\ ~OpenCreates)
             /\ \/ /\ hFile' = [hFile EXCEPT ![t] = PathHandle]
                   /\ hOff' = [hOff EXCEPT ![t] = TRUE]
                   /\ created' = [created EXCEPT ![t] = OpenCreates]
                   /\ IF NeedsLoad(f, lastModTime)
                      THEN /\ stMod' = [stMod EXCEPT ![t] = f.mod]
                           /\ pc' = [pc EXCEPT ![t] = "u_read2"]
                      ELSE /\ pc' = [pc EXCEPT ![t] = "u_fn"]
                           /\ UNCHANGED stMod
                \/ /\ pc' = [pc EXCEPT ![t] = "u_staterr"]
                   /\ UNCHANGED <<hFile, hOff, stMod, created>>
    /\ errAt' = [errAt EXCEPT ![t] = Earlier(@)]
    /\ UNCHANGED <<lfVars, op, ret, preFn, seen, raced, hist>>

\* The second loadIfUpdated's forceLoad, through the read-write handle.  The
\* decoder's reads leave the handle's offset behind what it read.
UpdRead2(t) ==
    /\ pc[t] \in {"u_read2", "u2_seekerr"}
    /\ \/ /\ pc[t] = "u_read2"
          /\ pc' = [pc EXCEPT ![t] = "u2_seekerr"]
          /\ UNCHANGED <<file, lfVars, op, hFile, hOff, stMod, ret, histVars>>
       \/ LET seekErr == pc[t] = "u2_seekerr"
              d == ReadAt(t, ~seekErr)
              r == ForceLoad(d, cached, defaultV)
          IN \E hs, h \in HandlerOutcomes :
             IF seekErr /\ hs = "panic"
             THEN Raise(t, "io_u")
             ELSE IF r.err /\ h = "panic"
             THEN Raise(t, "load2")
             ELSE /\ cached' = r.cached
                  /\ errAt' = [errAt EXCEPT ![t] =
                                  IF r.err THEN "load2"
                                  ELSE IF seekErr THEN "io_u" ELSE @]
                  /\ hOff' = [hOff EXCEPT ![t] = SizeZero(d)]
                  /\ IF CallsOnLoaded(r.err)
                     THEN /\ pc' = [pc EXCEPT ![t] = "u2_loaded"]
                          /\ UNCHANGED <<lastModTime, stMod>>
                     ELSE /\ lastModTime' = stMod[t]
                          /\ stMod' = [stMod EXCEPT ![t] = 0]
                          /\ pc' = [pc EXCEPT ![t] = "u_fn"]
                  /\ UNCHANGED <<file, defaultV, locked, op, hFile, ret, preFn,
                                 seen, raced, created, virgin, hist>>

\* onLoaded returns in the second check: lastModTime = modTime.
UpdLoaded2(t) ==
    /\ pc[t] = "u2_loaded"
    /\ lastModTime' = stMod[t]
    /\ stMod' = [stMod EXCEPT ![t] = 0]
    /\ pc' = [pc EXCEPT ![t] = "u_fn"]
    /\ UNCHANGED <<file, defaultV, cached, locked, op, hFile, hOff, ret,
                   histVars>>

\* err = f(&lf.cached): fn runs while pc = "u_fn"; this step is its return,
\* after it stored v in field f of the cached value, with err nil or not.
\* The outcome "truncerr" is a nil return followed by a file.Truncate(0) that
\* fails: a failed Truncate changes nothing, so the two are one step.
FnOutcomes == {"none", "fnerr", "truncerr"}

FnNextM(e) == "u_trunc"
FnNext(e) ==
    CASE e = "fnerr" -> "u_rollback"
      [] e = "truncerr" -> "u_truncerr"
      [] OTHER -> "u_trunc"

UpdFn(t) ==
    /\ pc[t] = "u_fn"
    /\ \E f \in Fields : \E v \in FieldDom(f) :
        cached' = [cached EXCEPT ![f] = v]
    /\ \E e \in FnOutcomes :
        /\ ret' = [ret EXCEPT ![t] = IF e = "fnerr" THEN e ELSE "none"]
        /\ preFn' = [preFn EXCEPT ![t] =
                        IF e = "none" \/ raced[t] # "no" THEN {} ELSE {cached}]
        /\ created' = [created EXCEPT ![t] = IF e = "fnerr" THEN @ ELSE FALSE]
        /\ raced' = [raced EXCEPT ![t] =
                        IF e = "none" \/ @ = "no" THEN @ ELSE "late"]
        /\ pc' = [pc EXCEPT ![t] = FnNext(e)]
    /\ errAt' = [errAt EXCEPT ![t] = Earlier(@)]
    /\ hist' = "other"
    /\ UNCHANGED <<file, defaultV, lastModTime, locked, op, hFile, hOff, stMod,
                   seen, virgin>>

\* fn failed: lf.forceLoad(ctx, file); return err
UpdRollback(t) ==
    /\ pc[t] \in {"u_rollback", "rb_seekerr"}
    /\ \/ /\ pc[t] = "u_rollback"
          /\ pc' = [pc EXCEPT ![t] = "rb_seekerr"]
          /\ UNCHANGED <<file, lfVars, op, hFile, hOff, stMod, ret, histVars>>
       \/ LET seekErr == pc[t] = "rb_seekerr"
              r == ForceLoad(ReadAt(t, ~seekErr), cached, defaultV)
          IN \E hs, h \in HandlerOutcomes :
             IF seekErr /\ hs = "panic"
             THEN Raise(t, "io_rb")
             ELSE IF r.err /\ h = "panic"
             THEN Raise(t, "rollback")
             ELSE /\ cached' = r.cached
                  /\ errAt' = [errAt EXCEPT ![t] =
                                  IF r.err THEN "rollback"
                                  ELSE IF seekErr THEN "io_rb" ELSE @]
                  /\ pc' = [pc EXCEPT ![t] =
                               IF CallsOnLoaded(r.err) THEN "rb_loaded"
                               ELSE "u_ret"]
                  /\ UNCHANGED <<file, defaultV, lastModTime, locked, op, hFile,
                                 hOff, stMod, ret, preFn, seen, raced, created,
                                 virgin, hist>>

\* onLoaded returns in the rollback: return err.
UpdLoadedRb(t) ==
    /\ pc[t] = "rb_loaded"
    /\ pc' = [pc EXCEPT ![t] = "u_ret"]
    /\ UNCHANGED <<file, lfVars, op, hFile, hOff, stMod, ret, histVars>>

\* A write of doc d, stamped m, to the file behind goroutine t's handle.
PutBehind(t, d, m) ==
    IF hFile[t].st = "path"
    THEN /\ file' = [ex |-> TRUE, doc |-> d, mod |-> m]
         /\ UNCHANGED hFile
    ELSE /\ hFile' = [hFile EXCEPT ![t] = [st |-> "orphan", doc |-> d, mod |-> m]]
         /\ UNCHANGED file

\* file.Truncate(0): the size becomes zero, the handle's offset stays.
UpdTrunc(t) ==
    /\ pc[t] = "u_trunc"
    /\ \E m \in WriteStamps : PutBehind(t, EmptyDoc, m)
    /\ pc' = [pc EXCEPT ![t] = "u_write"]
    /\ UNCHANGED <<lfVars, op, hOff, stMod, ret, histVars>>

\* The bytes of the file after enc.Encode(v) wrote at the handle's offset.
\* At offset zero of an empty file they are the encoding.  Past the end of
\* the file the gap reads as NUL bytes.  Over bytes somebody wrote since the
\* truncation, the encoding replaces the first bytes and a longer old content
\* keeps its tail.
\* A tail left by bytes the controller itself wrote makes the file a mix of
\* two encodings ("lfmix").
Written(old, atStart, v) ==
    IF ~atStart THEN {Doc("padded", Fields, v, "lf")}
    ELSE IF SizeZero(old) THEN {Encode(v)}
    ELSE {Encode(v),
          Doc("tail", Fields, v, IF old.src = "ext" THEN "lf" ELSE "lfmix")}

\* enc.Encode fails: nothing reached the file.
UpdWrite(t) ==
    /\ pc[t] = "u_write"
    /\ \/ /\ \E d \in Written(Behind(t).doc, hOff[t], cached) :
             \E m \in WriteStamps : PutBehind(t, d, m)
          /\ hOff' = [hOff EXCEPT ![t] = FALSE]
          /\ pc' = [pc EXCEPT ![t] = "u_stat"]
       \/ /\ pc' = [pc EXCEPT ![t] = "u_encerr"]
          /\ UNCHANGED <<file, hFile, hOff>>
    /\ UNCHANGED <<lfVars, op, stMod, ret, histVars>>

\* file.Sync(); stat, err := file.Stat(); lf.lastModTime = stat.ModTime()
UpdStat(t) ==
    /\ pc[t] = "u_stat"
    /\ \/ /\ lastModTime' = Behind(t).mod
          /\ ret' = [ret EXCEPT ![t] = "ok"]
          /\ pc' = [pc EXCEPT ![t] = "u_ret"]
       \/ /\ \E e \in {"u_syncerr", "u_fstaterr"} : pc' = [pc EXCEPT ![t] = e]
          /\ UNCHANGED <<lastModTime, ret>>
    /\ UNCHANGED <<file, defaultV, cached, locked, op, hFile, hOff, stMod,
                   histVars>>

\* A failed OpenFile/MkdirAll, Truncate, Encode, Sync or Stat in Update's
\* write phase: if err != nil { return err }.  errHandler is not involved,
\* whatever it would do.
WriteErrPcs == {"u_openerr", "u_truncerr", "u_encerr", "u_syncerr", "u_fstaterr"}

WriteErrNextM(h) == IF h = "panic" THEN "panic" ELSE "u_ret"
WriteErrNext(h) == "u_ret"

UpdIOErr(t) ==
    /\ pc[t] \in WriteErrPcs
    /\ \E h \in HandlerOutcomes : pc' = [pc EXCEPT ![t] = WriteErrNext(h)]
    /\ ret' = [ret EXCEPT ![t] = "ioerr"]
    /\ UNCHANGED <<file, lfVars, op, hFile, hOff, stMod, histVars>>

\* return err: the deferred file.Close() and mutex.Unlock()
UpdRet(t) ==
    /\ pc[t] = "u_ret"
    /\ Leave(t)
    /\ locked' = FALSE
    /\ hist' = IF ret[t] = "ok" THEN "updated" ELSE "other"
    /\ UNCHANGED <<file, defaultV, cached, lastModTime, virgin>>

\* ---------------------------------------------------------------- environment
\* What an external event does to the history of the Updates in flight: a
\* write that lands while fn runs is "fn"; a removal under an open handle, or
\* anything after fn returned, is "late".
RacedAfter(t, isWrite) ==
    IF raced[t] = "late" THEN "late"
    ELSE IF isWrite /\ pc[t] = "u_fn" THEN "fn"
    ELSE IF pc[t] \in {"u_read2", "u_fn", "u_rollback", "u_trunc", "u_write",
                       "u_stat", "u_ret", "u_staterr", "u2_seekerr",
                       "u2_loaded", "rb_seekerr", "rb_loaded"} \cup WriteErrPcs
         THEN "late"
    ELSE raced[t]

\* The value before fn is history of an Update that no external event has
\* touched; it is dropped once one has.
PreFnAfter(t, isWrite) ==
    IF RacedAfter(t, isWrite) = "no" THEN preFn[t] ELSE {}

\* Another process writes the file in place (os.WriteFile), creating it when
\* it is missing.
ExtWrite(d) ==
    /\ \E m \in WriteStamps : file' = [ex |-> TRUE, doc |-> d, mod |-> m]
    /\ seen' = [t \in Threads |-> {}]
    /\ raced' = [t \in Threads |-> RacedAfter(t, TRUE)]
    /\ preFn' = [t \in Threads |-> PreFnAfter(t, TRUE)]
    /\ virgin' = FALSE
    /\ UNCHANGED <<lfVars, thVars, errAt, created, hist>>

\* Another process removes the file; open handles keep the removed file.
ExtRemove ==
    /\ file.ex
    /\ file' = NoFile
    /\ hFile' = [t \in Threads |->
                   IF hFile[t].st = "path"
                   THEN [st |-> "orphan", doc |-> file.doc, mod |-> file.mod]
                   ELSE hFile[t]]
    /\ seen' = [t \in Threads |-> {}]
    /\ raced' = [t \in Threads |-> RacedAfter(t, FALSE)]
    /\ preFn' = [t \in Threads |-> PreFnAfter(t, FALSE)]
    /\ UNCHANGED <<lfVars, pc, op, hOff, stMod, ret, errAt, created,
                   virgin, hist>>

\* ---------------------------------------------------------------- specification
Step(t) ==
    \/ Call(t)
    \/ Ensure(t)
    \/ EnsureOpenErr(t)
    \/ StatErr(t)
    \/ EnsureRead(t)
    \/ EnsureLoaded(t)
    \/ ViewFn(t)
    \/ PeekCopy(t)
    \/ UpdOpen(t)
    \/ UpdRead2(t)
    \/ UpdLoaded2(t)
    \/ UpdFn(t)
    \/ UpdRollback(t)
    \/ UpdLoadedRb(t)
    \/ UpdTrunc(t)
    \/ UpdWrite(t)
    \/ UpdStat(t)
    \/ UpdIOErr(t)
    \/ UpdRet(t)
    \/ Unwind(t)

Next ==
    \/ New
    \/ \E t \in Threads : Step(t)
    \/ \E d \in ExtDocs : ExtWrite(d)
    \/ ExtRemove

Spec == Init /\ [][Next]_vars

\* The file's modification time is set back (os.Chtimes, an older file
\* copied over the path with its times kept, a clock that was stepped back):
\* Stat reports what the file system holds, whatever its order.
ExtTouch(m) ==
    /\ file.ex /\ m < file.mod
    /\ file' = [file EXCEPT !.mod = m]
    /\ seen' = [t \in Threads |-> {}]
    /\ raced' = [t \in Threads |-> RacedAfter(t, FALSE)]
    /\ preFn' = [t \in Threads |-> PreFnAfter(t, FALSE)]
    /\ UNCHANGED <<lfVars, thVars, errAt, created, virgin, hist>>

\* One goroutine against an external writer that also sets times back (the
\* mutex leaves any other goroutine waiting at Lock).
NextChtimes ==
    \/ New
    \/ Step("g1")
    \/ \E d \in ExtDocs : ExtWrite(d)
    \/ ExtRemove
    \/ \E m \in 1..MaxClock : ExtTouch(m)

SpecChtimes == Init /\ [][NextChtimes]_vars

TypeOK ==
    /\ cached \in TestData
    /\ lastModTime \in 0..MaxClock
    /\ file.mod \in 0..MaxClock
    /\ locked \in BOOLEAN

\* ---------------------------------------------------------------- properties
\* C1: an Update whose fn mutated the cached value and returned an error
\* leaves the cached value as it was just before fn was invoked (no external
\* event touched the file since the handle was opened, and no decode failed).
C1_RollbackRestoresPreFn ==
    \A t \in Threads :
        (pc[t] = "u_ret" /\ ret[t] = "fnerr" /\ raced[t] = "no"
         /\ errAt[t] = "none")
            => cached \in preFn[t]

\* A step of goroutine t.
StepOf(t) == pc'[t] # pc[t]

\* C2, as claimed: an Update whose fn returns an error leaves the file's
\* bytes as they were and leaves no file on disk that was not there before.
C2_NoWriteNoCreate ==
    /\ [](\A t \in Threads :
            (pc[t] = "u_ret" /\ ret[t] = "fnerr") => ~(created[t] /\ file.ex))
    /\ [][\A t \in Threads : (StepOf(t) /\ ret[t] = "fnerr") => file' = file]_vars

\* C2, amended: no step of an Update up to fn's return, and none after fn
\* returned an error, changes the file at the path, except that the open
\* creates an empty file when there was none.
C2_NoWriteButEmptyCreate ==
    [][\A t \in Threads :
        (StepOf(t) /\ op[t] = "Update" /\ ret[t] # "ok"
         /\ (ret[t] = "fnerr"
             \/ pc[t] \in {"ensure", "e_openerr", "e_staterr", "e_read",
                         "e_seekerr", "e_loaded", "u_open", "u_staterr",
                         "u_read2", "u2_seekerr", "u2_loaded", "u_fn",
                         "panic", "crash"}))
        => \/ file' = file
           \/ /\ pc[t] = "u_open"
              /\ ~file.ex /\ file'.ex /\ SizeZero(file'.doc)]_vars

C2_Witness ==
    \E t \in Threads :
        /\ pc[t] = "u_ret" /\ ret[t] = "fnerr"
        /\ created[t] /\ file.ex /\ SizeZero(file.doc)

\* C3: over a path where no file has been since construction, Peek returns
\* and View shows the default value, and neither New nor any step of a View
\* or Peek changes the file at the path.
C3_DefaultWithoutFile ==
    /\ [](virgin => /\ ~file.ex
                    /\ \A t \in Threads :
                        pc[t] \in {"p_copy", "v_fn"} => PeekResult = defaultV)
    /\ [][/\ \A t \in Threads :
              (StepOf(t) /\ (op[t] \in {"View", "Peek"} \/ op'[t] \in {"View", "Peek"}))
                  => file' = file
          /\ (pc' = pc /\ <<defaultV, cached, lastModTime, locked, hist>>'
                             # <<defaultV, cached, lastModTime, locked, hist>>)
                  => file' = file]_vars

C3_Witness ==
    \E t \in Threads :
        /\ pc[t] = "p_copy" /\ virgin /\ ~file.ex
        /\ defaultV # ZeroValue /\ PeekResult = defaultV

\* C4: when the file holds what a successful Update wrote for the value V,
\* the first Peek of a new instance over the path returns V (no Open, Stat or
\* Seek of its freshness check failed).
C4_RoundTrip ==
    \A t \in Threads :
        (/\ op[t] = "Peek" /\ pc[t] \in {"p_copy", "panic"}
         /\ hist = "new" /\ errAt[t] # "io_e"
         /\ file.ex /\ file.doc.src = "lf" /\ ~SizeZero(file.doc))
        => (pc[t] = "p_copy" /\ PeekResult = file.doc.val)

C6_UpdatesSerialized ==
    /\ \A t, u \in Threads :
        (t # u /\ op[t] = "Update" /\ op[u] = "Update")
            => (pc[t] = "idle" \/ pc[u] = "idle")
    /\ \A t \in Threads :
        (/\ pc[t] = "u_fn" /\ hist = "updated"
         /\ file.ex /\ file.doc.src = "lf" /\ ~SizeZero(file.doc))
        => cached = file.doc.val
    /\ file.doc.src # "lfmix"
    /\ \A t \in Threads : hFile[t].doc.src # "lfmix"

C6_Witness ==
    \E t \in Threads :
        /\ pc[t] = "u_fn" /\ hist = "updated"
        /\ file.ex /\ file.doc.kind = "json" /\ file.doc.src = "lf"
        /\ cached = file.doc.val /\ cached # defaultV

\* C7: at most one View, Peek or Update is between taking the mutex and
\* releasing it, and the mutex is held while one is.
InCS == {t \in Threads : pc[t] # "idle"}

C7_MutualExclusion ==
    /\ Cardinality(InCS) <= 1
    /\ InCS # {} => locked

C7_Witness ==
    \E t, u \in Threads :
        /\ t # u /\ pc[t] = "u_write" /\ pc[u] = "idle" /\ locked
        /\ ~ENABLED Call(u)

\* C8: when an external write landed while fn ran and fn succeeded, the file
\* afterwards holds the encoding of the value fn produced, and the
\* controller is up to date with it.
C8_ExternalSuperseded ==
    \A t \in Threads :
        (pc[t] = "u_ret" /\ ret[t] = "ok" /\ raced[t] = "fn" /\ errAt[t] = "none")
        => /\ file.ex /\ file.doc = Encode(cached)
           /\ lastModTime = file.mod

\* C9: the value a View's fn sees does not change while fn runs.
C9_ViewStable ==
    [][\A t \in Threads : pc[t] = "v_fn" => cached' = cached]_vars

C9_Witness ==
    \E t \in Threads :
        /\ pc[t] = "v_fn" /\ file.ex /\ NeedsLoad(file, lastModTime)
        /\ file.doc.kind = "json" /\ Merge(file.doc, cached) # cached

\* C10: errHandler is never invoked while Update handles a failure of fn.
C10_NoPolicyOnFnFailure ==
    \A t \in Threads : errAt[t] # "rollback"

\* C11: after an Update that returns an error, the cached value is the one
\* fn was given or the one the file held before the attempt (the file is a
\* complete encoding that nothing has touched since the Update opened it).
C11_FailedUpdateNotMutated ==
    \A t \in Threads :
        (/\ pc[t] = "u_ret" /\ ret[t] \in {"fnerr", "ioerr"}
         /\ preFn[t] # {} /\ raced[t] = "no" /\ errAt[t] = "none"
         /\ file.ex /\ file.doc.kind = "json" /\ file.doc.has = Fields)
        => (cached \in preFn[t] \/ cached = file.doc.val)

\* C12, as claimed: every I/O failure in the write phase of Update is
\* reported to errHandler.
C12_WriteErrorsReported ==
    [][\A t \in Threads :
        (pc[t] \in WriteErrPcs /\ StepOf(t))
            => (pc'[t] = "panic" \/ errAt'[t] # errAt[t])]_vars

\* C12, amended: every I/O failure in the write phase of Update makes Update
\* return the error to its caller, without an invocation of errHandler.
C12_WriteErrorsReturned ==
    [][\A t \in Threads :
        (pc[t] \in WriteErrPcs /\ StepOf(t))
            => /\ pc'[t] = "u_ret" /\ ret'[t] = "ioerr"
               /\ errAt'[t] = errAt[t]]_vars

C12_Witness ==
    \E t \in Threads :
        /\ pc[t] = "u_ret" /\ ret[t] = "ioerr" /\ errAt[t] = "none"
        /\ file.ex /\ SizeZero(file.doc) /\ cached # defaultV

\* C13: when errHandler returns after a failed Stat, the operation goes on as
\* if no reload were needed: the cached value and lastModTime are as they
\* were, and fn runs or the value is returned.
C13_StatFailureSkipsReload ==
    [][\A t \in Threads :
        (pc[t] \in {"e_staterr", "u_staterr"} /\ StepOf(t) /\ pc'[t] # "panic")
            => /\ pc'[t] = IF pc[t] = "e_staterr" THEN AfterEnsure(op[t])
                           ELSE "u_fn"
               /\ cached' = cached
               /\ lastModTime' = lastModTime]_vars

\* C14: a failed Stat or Seek of a freshness check, and a decode of it that
\* fails on other bytes than an empty input, invoke errHandler before the
\* operation goes on.
C14_FailuresReported ==
    [][\A t \in Threads :
        LET inEnsure == pc[t] \in {"e_staterr", "e_read", "e_seekerr"}
            io == IF inEnsure THEN "io_e" ELSE "io_u"
            loc == IF inEnsure THEN "ensure" ELSE "load2"
            undecodable == Behind(t).doc.kind \in {"corrupt", "padded"}
        IN StepOf(t) =>
            /\ pc[t] \in {"e_staterr", "u_staterr", "e_seekerr", "u2_seekerr"}
                  => errAt'[t] \in {io, loc}
            /\ (pc[t] \in {"e_read", "u_read2"} /\ undecodable
                /\ pc'[t] \notin {"e_seekerr", "u2_seekerr"})
                  => errAt'[t] = loc
            /\ (pc[t] \in {"e_seekerr", "u2_seekerr"} /\ undecodable)
                  => \/ errAt'[t] = loc
                     \/ pc'[t] = "panic" /\ errAt'[t] = io]_vars

C14_Witness ==
    \E t \in Threads :
        /\ pc[t] \in {"v_fn", "p_copy"} /\ errAt[t] = "ensure"
        /\ file.ex /\ file.doc.kind = "corrupt" /\ lastModTime = file.mod

\* C15: onLoaded is invoked once for every reload whose decode succeeded (the
\* default taken for an empty input included), with the value just loaded
\* and with the mutex held, and for nothing else.
C15_ObserverOncePerReload ==
    /\ [](\A t \in Threads :
            pc[t] \in {"e_loaded", "u2_loaded", "rb_loaded"} => locked)
    /\ [][\A t \in Threads :
            LET seekErr == pc[t] \in {"e_seekerr", "u2_seekerr", "rb_seekerr"}
                d == ReadAt(t, ~seekErr)
                decodes == d.kind \in {"json", "tail", "empty"}
                invoked == pc'[t] \in {"e_loaded", "u2_loaded", "rb_loaded"}
            IN StepOf(t) =>
                /\ invoked =>
                      /\ pc[t] \in {"e_read", "e_seekerr", "u_read2",
                                     "u2_seekerr", "u_rollback", "rb_seekerr"}
                      /\ decodes
                      /\ cached' = IF d.kind = "empty" THEN defaultV
                                   ELSE Merge(d, cached)
                /\ (pc[t] \in {"e_read", "u_read2", "u_rollback"} /\ decodes
                    /\ pc'[t] \notin {"e_seekerr", "u2_seekerr", "rb_seekerr"})
                      => invoked
                /\ (seekErr /\ decodes /\ pc'[t] # "panic") => invoked
                /\ pc[t] \in {"e_loaded", "u2_loaded", "rb_loaded"}
                      => cached' = cached]_vars

C15_Witness ==
    \E t \in Threads :
        /\ pc[t] = "u2_loaded" /\ locked /\ stMod[t] > lastModTime
        /\ file.doc.kind = "json" /\ cached = Merge(file.doc, cached)
        /\ cached # defaultV

\* C16: no step of View, Peek or Update sets lastModTime to an earlier time
\* than it holds, whatever modification times the file takes on.
C16_LastModTimeMonotonic ==
    [][(\E t \in Threads : StepOf(t)) => lastModTime' >= lastModTime]_vars

\* C17: when an Update returns success (nothing else touched the file since
\* the Update opened it, and no errHandler call returned), the file exists
\* and its whole content is the encoding of the cached value from byte zero.
C17_FileIsEncoding ==
    \A t \in Threads :
        (pc[t] = "u_ret" /\ ret[t] = "ok" /\ raced[t] = "no" /\ errAt[t] = "none")
        => /\ file.ex
           /\ file.doc.kind = "json" /\ file.doc = Encode(cached)

\* C18: the freshness check reloads exactly when the file exists, is not
\* empty and has a modification time after lastModTime, and the reload ends
\* with lastModTime set to the modification time Stat gave.  Otherwise (no
\* file, an empty file, an equal or older time) the cached value and
\* lastModTime stay as they are.
C18_ReloadIffNewer ==
    [][\A t \in Threads :
        LET due(f) == f.ex /\ ~SizeZero(f.doc) /\ f.mod > lastModTime
            after == IF pc[t] \in {"e_read", "e_seekerr", "e_loaded"}
                     THEN AfterEnsure(op[t]) ELSE "u_fn"
        IN StepOf(t) =>
            /\ (pc[t] = "ensure" /\ pc'[t] = "e_read")
                  => due(file) /\ stMod'[t] = file.mod
            /\ (pc[t] = "ensure" /\ pc'[t] = AfterEnsure(op[t])) => ~due(file)
            /\ (pc[t] = "u_open" /\ pc'[t] = "u_read2")
                  => due(file') /\ stMod'[t] = file'.mod
            /\ (pc[t] = "u_open" /\ pc'[t] = "u_fn") => ~due(file')
            /\ (pc[t] \in {"e_read", "e_seekerr", "e_loaded", "u_read2",
                            "u2_seekerr", "u2_loaded"} /\ pc'[t] = after)
                  => lastModTime' = stMod[t] /\ stMod[t] > lastModTime
            /\ pc[t] \in {"idle", "ensure", "e_openerr", "e_staterr", "u_open",
                           "u_staterr", "v_fn", "p_copy"}
                  => cached' = cached /\ lastModTime' = lastModTime]_vars

C18_Witness ==
    \E t \in Threads :
        /\ pc[t] = "p_copy" /\ errAt[t] = "none"
        /\ file.ex /\ file.doc.kind = "json"
        /\ 0 < file.mod /\ file.mod < lastModTime
        /\ cached # Merge(file.doc, cached)

\* C19: a reload that Stat found due and whose read gives end-of-input at
\* once (the file was emptied in between) sets the cached value to the
\* default, does not invoke errHandler, and the access goes on.
C19_EmptyReadGivesDefault ==
    [][\A t \in Threads :
        (/\ StepOf(t)
         /\ pc[t] \in {"e_read", "u_read2"}
         /\ pc'[t] \notin {"e_seekerr", "u2_seekerr"}
         /\ Behind(t).doc.kind = "empty")
        => /\ cached' = defaultV
           /\ errAt'[t] = errAt[t]
           /\ pc'[t] = IF pc[t] = "e_read" THEN "e_loaded" ELSE "u2_loaded"]_vars

C19_Witness ==
    \E t \in Threads :
        /\ pc[t] = "e_loaded" /\ errAt[t] = "none"
        /\ file.ex /\ SizeZero(file.doc) /\ stMod[t] > 0
        /\ lastModTime > 0
        /\ cached = defaultV /\ defaultV # ZeroValue

\* C20: whenever no operation is in flight and the file exists, holds a
\* decodable content and is not newer than lastModTime, the cached value is
\* what that content decodes to.
C20_CacheCoherent ==
    (/\ \A t \in Threads : pc[t] = "idle"
     /\ file.ex /\ file.doc.kind \in {"json", "tail"}
     /\ file.mod <= lastModTime)
    => Merge(file.doc, cached) = cached

\* C21: every View, Peek and Update has released the mutex when it has ended,
\* by a return or by a panic that went up to its caller: whenever no
\* operation is in flight the mutex is free for the next one.
C21_LockReleased ==
    (\A t \in Threads : pc[t] = "idle") => ~locked

\* C22: after a reload or a rollback whose decode of a JSON object succeeded,
\* the cached value is what the file's content decodes to in a fresh value:
\* a field the object omits has the zero value, not what cached, the default
\* or a failed fn left there.
C22_DecodeIntoFresh ==
    [][\A t \in Threads :
        LET seekErr == pc[t] \in {"e_seekerr", "u2_seekerr", "rb_seekerr"}
            d == ReadAt(t, ~seekErr)
        IN (/\ StepOf(t)
            /\ pc'[t] \in {"e_loaded", "u2_loaded", "rb_loaded"}
            /\ d.kind \in {"json", "tail"})
           => cached' = Merge(d, ZeroValue)]_vars

====
